---- MODULE Spec2Model ----
(***************************************************************************)
(* The narration player (Player component, src/unnamed/part_002 lines      *)
(* 449-751: the variant with ensureAudioContext / stopAllAudio /           *)
(* speakSentence / playNextSentence) as a state machine.                   *)
(*                                                                         *)
(* React state is one variable per useState cell.  A handler is modelled   *)
(* as a function from the player state (a record gathering the variables)  *)
(* to the player state; the render that follows the handler and the        *)
(* effect on [currentIndex, isPlaying, playNextSentence, activeSpeechId]   *)
(* are part of the same step (state updates of one handler are batched).   *)
(* A closure reads the values of the render that created it, so every      *)
(* pending call carries the isPlaying and isLooping it captured.           *)
(* await ensureAudioContext() resumes its caller without any other event   *)
(* in between (resume() of a suspended device is taken to succeed at       *)
(* once).  Under Spec the device, once created, stays running; under       *)
(* DeviceSpec the platform may suspend it at any time; under LifeSpec the  *)
(* player is also torn down.  AppSpec is the App component (schedule       *)
(* trigger, navigation, persistence) around a player nobody touches,       *)
(* DecodeSpec applies decodeAudioData to byte buffers and SpeechSpec       *)
(* generateSpeech to the replies of the speech model.  SessionSpec is one  *)
(* session of auto-narration under fairness, TeardownSpec the player with  *)
(* its unmount, and AwaitSpec the player whose play button waits for       *)
(* resume().  A specification leaves the variables of the other parts at   *)
(* their initial values.                                                   *)
(***************************************************************************)
EXTENDS Integers, Sequences, FiniteSets, Bags, TLC

\* ---- bounds ----
MaxUnits == 3      \* lessons have 0..MaxUnits sentences
MaxPending == 3    \* events still to come: speech results, skip timers and
                   \* ended events of audio source nodes
MaxUserOps == 2    \* button presses (play, point-read, prev, next, loop;
                   \* arm, navigate, edit, reload) in a run
MaxClock == 5      \* the clock runs from 00:00:00 for MaxClock half-minutes
MaxEntries == 2    \* schedule entries in the list

\* ---- values ----
NoId == -1         \* the null of activeSpeechId / loadingSpeechId
\* What the await on generateSpeech yields: bytes that decode to a buffer,
\* null, or bytes for which decodeAudioData throws (a payload of one byte:
\* createBuffer refuses a length of 0).
SpeechResults == {"audio", "null", "undecodable"}

VARIABLES
  n,               \* lesson.sentences.length
  currentIndex,    \* useState(0)
  isPlaying,       \* useState(false)
  isLooping,       \* useState(false)
  loadingAudio,    \* useState(false)
  activeSpeechId,  \* useState(null); the speech id of unit i is modelled as i
  loadingSpeechId, \* useState(null)
  statusMsg,       \* useState(null), one tag per message text
  sources,         \* bag of AudioBufferSourceNodes that were started and
                   \* whose ended event has not been delivered yet
  tasks,           \* bag of pending awaits on generateSpeech and pending
                   \* setTimeout callbacks
  device,          \* audioContextRef: "none" before the context is created,
                   \* else the state of the context
  devices,         \* number of AudioContexts constructed so far
  mounted,         \* isComponentMounted.current
  appState,        \* App: useState<AppState>
  storage,         \* localStorage[STORAGE_KEY]: whether set, and the AppState
  clock,           \* the wall clock: weekday and half-minutes since 00:00
  timer,           \* the setInterval of the auto-start effect
  activations,     \* the minutes at which checkSchedule switched the view
  data,            \* decodeAudioData: the bytes handed in
  buffer,          \* decodeAudioData: what the call produced
  reply,           \* generateSpeech: how the call of the speech model ended
  audioBytes,      \* generateSpeech: what the promise settled with
  ops,             \* button presses so far
  scen             \* per script, how far the run so far follows it

\* the App component and its environment
appVars == <<appState, storage, clock, timer, activations>>
\* one call of decodeAudioData
decodeVars == <<data, buffer>>
\* one call of generateSpeech
speechVars == <<reply, audioBytes>>
\* the Player component
playerVars == <<n, currentIndex, isPlaying, isLooping, loadingAudio,
                activeSpeechId, loadingSpeechId, statusMsg, sources, tasks,
                device, devices, mounted, scen>>
vars == <<playerVars, appVars, decodeVars, speechVars, ops>>

\* The player state as one record, so that handlers compose as functions.
State ==
  [currentIndex |-> currentIndex, isPlaying |-> isPlaying,
   isLooping |-> isLooping, loadingAudio |-> loadingAudio,
   activeSpeechId |-> activeSpeechId, loadingSpeechId |-> loadingSpeechId,
   statusMsg |-> statusMsg, sources |-> sources, tasks |-> tasks,
   device |-> device, devices |-> devices, mounted |-> mounted]

One(x) == SetToBag({x})

\* ---- audio source nodes ----
\* kind "auto" (created by playNextSentence) or "point" (by speakSentence);
\* unit: the index / speech id it reads; playing, loop: the isPlaying and
\* isLooping captured by the closure installed as onended; onended: whether
\* a handler is attached; st: "playing" until it ends by itself, "stopped"
\* once stop() was called (the ended event is then still to be delivered);
\* cur: whether currentSourceRef.current is this node.
Source(kind, unit, playing, loop) ==
  [kind |-> kind, unit |-> unit, playing |-> playing, loop |-> loop,
   onended |-> TRUE, st |-> "playing", cur |-> TRUE]

Task(kind, unit, playing, loop) ==
  [kind |-> kind, unit |-> unit, playing |-> playing, loop |-> loop]

\* A node after onended = null and stop(): it is silent and no closure is
\* attached to it any more, so neither its buffer nor captured values are
\* kept; its ended event is still delivered, to no handler.
Halted ==
  [kind |-> "halted", unit |-> 0, playing |-> FALSE, loop |-> FALSE,
   onended |-> FALSE, st |-> "stopped", cur |-> FALSE]

CurrentSources(b) == {r \in BagToSet(b) : r.cur}
Audible(b) == {r \in BagToSet(b) : r.st = "playing"}
NumAudible(b) == BagCardinality([r \in Audible(b) |-> b[r]])

\* currentSourceRef.current = source: the node referenced before keeps
\* playing with its handler, it is only no longer referenced.
SetCurrentSource(b, src) ==
  LET old == CurrentSources(b)
      dropped == IF old = {} THEN b
                 ELSE LET r == CHOOSE x \in old : TRUE
                      IN (b (-) One(r)) (+) One([r EXCEPT !.cur = FALSE])
  IN dropped (+) One(src)

\* ensureAudioContext constructing a context on every call (mutant)
ensureAudioContext_alwaysCreates(s) ==
  [s EXCEPT !.device = "running", !.devices = @ + 1]

\* ---- ensureAudioContext ----
\* creates the context if there is none, resumes it if it is suspended
ensureAudioContext(s) ==
  IF s.device = "none"
  THEN [s EXCEPT !.device = "running", !.devices = @ + 1]   \* new AudioCtx
  ELSE IF s.device = "suspended"
  THEN [s EXCEPT !.device = "running"]                      \* resume()
  ELSE s

\* the once-only click / touchstart listener installed at mount: the first
\* press anywhere creates the context
unlock(s) == IF s.device = "none" THEN ensureAudioContext(s) ELSE s

\* ---- stopAllAudio, statement by statement ----
\* the statements halting the node before they clear onended (mutant)
stopAllAudioSteps_haltsFirst(r) ==
  LET a == [r EXCEPT !.st = "stopped"]
      b == [a EXCEPT !.onended = FALSE]
      c == [b EXCEPT !.connected = FALSE]
      d == [c EXCEPT !.cur = FALSE]
  IN <<a, b, c, d>>

\* r: the node currentSourceRef refers to, with its connection to the
\* destination.  The node after each of the four statements of the try
\* block and the reset of the reference; stop() and disconnect() do not
\* throw on a node that was started and connected.
stopAllAudioSteps(r) ==
  LET a == [r EXCEPT !.onended = FALSE]       \* onended = null
      b == [a EXCEPT !.st = "stopped"]        \* stop()
      c == [b EXCEPT !.connected = FALSE]     \* disconnect()
      d == [c EXCEPT !.cur = FALSE]           \* currentSourceRef.current = null
  IN <<a, b, c, d>>

\* stopAllAudio halting the node without clearing onended first (mutant)
stopAllAudio_keepsObserver(s) ==
  LET old == CurrentSources(s.sources)
      halted == IF old = {} THEN s.sources
                ELSE LET r == CHOOSE x \in old : TRUE
                     IN (s.sources (-) One(r))
                        (+) One([r EXCEPT !.st = "stopped", !.cur = FALSE])
  IN [s EXCEPT !.sources = halted, !.activeSpeechId = NoId]

\* stopAllAudio leaving currentSourceRef on the halted node (mutant)
stopAllAudio_keepsRef(s) ==
  LET old == CurrentSources(s.sources)
      halted == IF old = {} THEN s.sources
                ELSE LET r == CHOOSE x \in old : TRUE
                     IN (s.sources (-) One(r))
                        (+) One([Halted EXCEPT !.cur = TRUE])
  IN [s EXCEPT !.sources = halted, !.activeSpeechId = NoId]

\* ---- stopAllAudio ----
\* A reference to a node that already ended is modelled as no reference:
\* stop() on it changes nothing and the reference is reset either way.
stopAllAudio(s) ==
  LET old == CurrentSources(s.sources)
      halted == IF old = {} THEN s.sources
                ELSE LET r == CHOOSE x \in old : TRUE
                     IN (s.sources (-) One(r)) (+) One(Halted)
  IN [s EXCEPT !.sources = halted, !.activeSpeechId = NoId]

\* ---- playNextSentence, up to the await on generateSpeech ----
\* isPlayingC, isLoopingC: the values captured by the closure that is called.
playNextSentence(s, index, isPlayingC, isLoopingC) ==
  IF ~isPlayingC \/ ~s.mounted THEN s
  ELSE LET s1 == [ensureAudioContext(s) EXCEPT
                     !.loadingAudio = TRUE, !.statusMsg = "studying"]
       IN IF index \notin 0..(n - 1)
          THEN \* lesson.sentences[index] is undefined: TypeError, caught
               [s1 EXCEPT !.loadingAudio = FALSE, !.statusMsg = "interrupted"]
          ELSE [s1 EXCEPT !.tasks =
                  @ (+) One(Task("auto", index, isPlayingC, isLoopingC))]

\* a failed request aborting the session instead of arming the skip (mutant)
playNextSentenceResumed_abortsOnFailure(s, t, res) ==
  IF ~s.mounted \/ ~t.playing THEN s
  ELSE LET s1 == [s EXCEPT !.loadingAudio = FALSE]
       IN IF res # "audio"
          THEN [s1 EXCEPT !.isPlaying = FALSE, !.statusMsg = "interrupted"]
          ELSE LET s2 == stopAllAudio(s1)
               IN [s2 EXCEPT
                     !.sources = SetCurrentSource(@,
                        Source("auto", t.unit, t.playing, t.loop)),
                     !.statusMsg = "none"]

\* the continuation without the test of isComponentMounted (mutant)
playNextSentenceResumed_ignoresUnmount(s, t, res) ==
  IF ~t.playing THEN s
  ELSE LET s1 == [s EXCEPT !.loadingAudio = FALSE]
       IN IF res = "null"
          THEN [s1 EXCEPT !.tasks =
                  @ (+) One(Task("skip", t.unit, FALSE, FALSE))]
          ELSE IF res = "undecodable"
          THEN [s1 EXCEPT !.loadingAudio = FALSE, !.statusMsg = "interrupted"]
          ELSE LET s2 == stopAllAudio(s1)
               IN [s2 EXCEPT
                     !.sources = SetCurrentSource(@,
                        Source("auto", t.unit, t.playing, t.loop)),
                     !.statusMsg = "none"]

\* ---- playNextSentence, from the await on generateSpeech on ----
playNextSentenceResumed(s, t, res) ==
  IF ~s.mounted \/ ~t.playing THEN s
  ELSE LET s1 == [s EXCEPT !.loadingAudio = FALSE]
       IN IF res = "null"
          THEN [s1 EXCEPT !.tasks =
                  @ (+) One(Task("skip", t.unit, FALSE, FALSE))]
          ELSE IF res = "undecodable"
          THEN \* catch (err)
               [s1 EXCEPT !.loadingAudio = FALSE, !.statusMsg = "interrupted"]
          ELSE LET s2 == stopAllAudio(s1)
               IN [s2 EXCEPT
                     !.sources = SetCurrentSource(@,
                        Source("auto", t.unit, t.playing, t.loop)),
                     !.statusMsg = "none"]

\* the failure branch advancing past the last unit (mutant)
skipTimer_offByOne(s, index) ==
  IF index + 1 <= n THEN [s EXCEPT !.currentIndex = index + 1]
  ELSE [s EXCEPT !.isPlaying = FALSE]

\* the failure branch staying on the unit while the loop is on (mutant)
skipTimer_staysWhenLooping(s, index) ==
  IF s.isLooping THEN s
  ELSE IF index + 1 < n THEN [s EXCEPT !.currentIndex = index + 1]
  ELSE [s EXCEPT !.isPlaying = FALSE]

\* the setTimeout callback of the failure branch
skipTimer(s, index) ==
  IF index + 1 < n THEN [s EXCEPT !.currentIndex = index + 1]
  ELSE [s EXCEPT !.isPlaying = FALSE]

\* onended advancing whatever the loop flag says (mutant)
onendedAuto_ignoresLoop(s, r) ==
  IF ~s.mounted THEN s
  ELSE IF r.unit + 1 < n THEN [s EXCEPT !.currentIndex = r.unit + 1]
  ELSE [s EXCEPT !.isPlaying = FALSE, !.statusMsg = "finished"]

\* source.onended installed by playNextSentence
onendedAuto(s, r) ==
  IF ~s.mounted THEN s
  ELSE IF r.loop THEN playNextSentence(s, r.unit, r.playing, r.loop)
  ELSE IF r.unit + 1 < n THEN [s EXCEPT !.currentIndex = r.unit + 1]
  ELSE [s EXCEPT !.isPlaying = FALSE, !.statusMsg = "finished"]

\* speakSentence without setIsPlaying(false) (mutant)
speakSentence_keepsPlaying(s, id) ==
  LET s1 == stopAllAudio(ensureAudioContext(s))
  IN [s1 EXCEPT !.loadingSpeechId = id, !.statusMsg = "preparing",
                !.tasks = @ (+) One(Task("point", id, FALSE, FALSE))]

\* ---- speakSentence, up to the await on generateSpeech ----
speakSentence(s, id) ==
  LET s1 == stopAllAudio(ensureAudioContext(s))
  IN [s1 EXCEPT !.isPlaying = FALSE, !.loadingSpeechId = id,
                !.statusMsg = "preparing",
                !.tasks = @ (+) One(Task("point", id, FALSE, FALSE))]

\* speakSentence asking again when the request yielded nothing (mutant)
speakSentenceResumed_retries(s, t, res) ==
  LET s1 == [s EXCEPT !.loadingSpeechId = NoId]
  IN IF ~s.mounted THEN s
     ELSE IF res # "audio"
     THEN [s1 EXCEPT !.loadingSpeechId = t.unit,
                     !.tasks = @ (+) One(Task("point", t.unit, FALSE, FALSE))]
     ELSE [s1 EXCEPT
             !.sources = SetCurrentSource(@,
                Source("point", t.unit, FALSE, FALSE)),
             !.activeSpeechId = t.unit,
             !.statusMsg = "none"]

\* ---- speakSentence, from the await on generateSpeech on ----
speakSentenceResumed(s, t, res) ==
  LET s1 == [s EXCEPT !.loadingSpeechId = NoId]
  IN IF ~s.mounted THEN s
     ELSE IF res = "null" THEN [s1 EXCEPT !.statusMsg = "absent"]
     ELSE IF res = "undecodable"
     THEN \* catch (err)
          [s1 EXCEPT !.loadingSpeechId = NoId, !.statusMsg = "callFailed"]
     ELSE [s1 EXCEPT
             !.sources = SetCurrentSource(@,
                Source("point", t.unit, FALSE, FALSE)),
             !.activeSpeechId = t.unit,
             !.statusMsg = "none"]

\* source.onended installed by speakSentence
onendedPoint(s) == [s EXCEPT !.activeSpeechId = NoId]

\* ---- toggleAutoPlay ----
toggleAutoPlay(s) ==
  LET s0 == ensureAudioContext(s)
      s1 == IF s.activeSpeechId # NoId THEN stopAllAudio(s0) ELSE s0
  IN [s1 EXCEPT !.isPlaying = ~s.isPlaying]

\* toggleAutoPlay from the await on ensureAudioContext on, when resume()
\* took its time; t.unit and t.playing: activeSpeechId and isPlaying as the
\* closure that was called captured them
toggleAutoPlayResumed(s, t) ==
  LET s1 == IF t.unit # NoId THEN stopAllAudio(s) ELSE s
  IN [s1 EXCEPT !.isPlaying = ~t.playing]

\* ---- prev / next / loop buttons ----
Max(a, b) == IF a > b THEN a ELSE b
Min(a, b) == IF a < b THEN a ELSE b
prevIndex(prev) == Max(0, prev - 1)
nextIndex(prev) == Min(n - 1, prev + 1)

\* ---- the effect on [currentIndex, isPlaying, playNextSentence,
\*      activeSpeechId] ----
\* playNextSentence is a new function exactly when isPlaying or isLooping
\* changed (lesson and ensureAudioContext never change).  before: the state
\* of the previous render; s: the state this render committed.
Deps(s) == <<s.currentIndex, s.isPlaying, s.isLooping, s.activeSpeechId>>
\* the idle branch stopping whatever plays, a point-read included (mutant)
playerEffect_stopsPointRead(before, s) ==
  IF Deps(before) = Deps(s) THEN s
  ELSE IF s.isPlaying
       THEN playNextSentence(s, s.currentIndex, s.isPlaying, s.isLooping)
       ELSE stopAllAudio(s)
playerEffect(before, s) ==
  IF Deps(before) = Deps(s) THEN s
  ELSE IF s.isPlaying
       THEN playNextSentence(s, s.currentIndex, s.isPlaying, s.isLooping)
       ELSE IF s.activeSpeechId = NoId THEN stopAllAudio(s) ELSE s

\* ---- scripts: fixed runs from Init, followed event by event ----
\* scen[k] is the number of events of script k the run has taken so far,
\* as long as the run consists of exactly these events; -1 once it did not.
\* res: the speech result, or how a node came to its ended event, or "-"
Ev(op, unit, res) == [op |-> op, unit |-> unit, res |-> res]
Scripts ==
  [ \* Scenario A of the spec: 3 units, unit 1 fails
    A |-> [units |-> 3, evs |->
            << Ev("toggleAutoPlay", 0, "-"),
               Ev("autoSpeech", 0, "audio"),  Ev("ended", 0, "natural"),
               Ev("autoSpeech", 1, "null"), Ev("skipTimer", 1, "-"),
               Ev("autoSpeech", 2, "audio"),  Ev("ended", 2, "natural") >>],
    \* Scenario C of the spec: point-read of unit 1 during auto-narration
    C |-> [units |-> 2, evs |->
            << Ev("toggleAutoPlay", 0, "-"), Ev("autoSpeech", 0, "audio"),
               Ev("speakSentence", 1, "-"), Ev("pointSpeech", 1, "audio"),
               Ev("ended", 1, "natural") >>],
    \* looping: unit 0 completes twice in a row with the loop on
    L |-> [units |-> 2, evs |->
            << Ev("loop", 0, "-"), Ev("toggleAutoPlay", 0, "-"),
               Ev("autoSpeech", 0, "audio"), Ev("ended", 0, "natural"),
               Ev("autoSpeech", 0, "audio"), Ev("ended", 0, "natural") >>],
    \* explicit stop while unit 0 plays, then the halted node's ended event
    S |-> [units |-> 2, evs |->
            << Ev("toggleAutoPlay", 0, "-"), Ev("autoSpeech", 0, "audio"),
               Ev("toggleAutoPlay", 0, "-"), Ev("ended", 0, "halted") >>],
    \* a point-read of unit 0 on an idle player, whose request yields nothing
    F |-> [units |-> 1, evs |->
            << Ev("speakSentence", 0, "-"), Ev("pointSpeech", 0, "null") >>],
    \* next pressed while the point-read of unit 0 plays on an idle player
    N |-> [units |-> 2, evs |->
            << Ev("speakSentence", 0, "-"), Ev("pointSpeech", 0, "audio"),
               Ev("next", 0, "-") >>],
    \* the request of unit 0 fails; stop during the delay of the skip
    K |-> [units |-> 2, evs |->
            << Ev("toggleAutoPlay", 0, "-"), Ev("autoSpeech", 0, "null"),
               Ev("toggleAutoPlay", 0, "-"), Ev("skipTimer", 0, "-") >>],
    \* the request of unit 0 fails; point-read of unit 1 during the delay
    P |-> [units |-> 2, evs |->
            << Ev("toggleAutoPlay", 0, "-"), Ev("autoSpeech", 0, "null"),
               Ev("speakSentence", 1, "-"), Ev("skipTimer", 0, "-") >>],
    \* looping: the request of unit 0 fails and the delay elapses
    M |-> [units |-> 2, evs |->
            << Ev("loop", 0, "-"), Ev("toggleAutoPlay", 0, "-"),
               Ev("autoSpeech", 0, "null"), Ev("skipTimer", 0, "-") >>],
    \* the player is unmounted while the request of unit 0 is pending
    U |-> [units |-> 2, evs |->
            << Ev("toggleAutoPlay", 0, "-"), Ev("unmount", 0, "-"),
               Ev("autoSpeech", 0, "audio") >>],
    \* play pressed twice while the device resumes
    W |-> [units |-> 1, evs |->
            << Ev("click", 0, "-"), Ev("suspend", 0, "-"),
               Ev("toggleAutoPlay", 0, "-"), Ev("toggleAutoPlay", 0, "-"),
               Ev("resumed", 0, "-"), Ev("resumed", 0, "-") >>],
    \* auto mode armed at 00:00:00 and switched off at 00:01:00, when the
    \* first tick of the interval is due
    D |-> [units |-> MaxUnits, evs |->
            << Ev("toggleAutoMode", 0, "-"), Ev("advance", 0, "-"),
               Ev("advance", 0, "-"), Ev("toggleAutoMode", 0, "-") >>],
    \* auto mode armed at 00:00:00, the page reloaded half a minute later
    R |-> [units |-> MaxUnits, evs |->
            << Ev("toggleAutoMode", 0, "-"), Ev("advance", 0, "-"),
               Ev("reload", 0, "-") >>],
    \* auto mode armed at 00:00:00, the first tick of the interval
    T |-> [units |-> MaxUnits, evs |->
            << Ev("toggleAutoMode", 0, "-"), Ev("advance", 0, "-"),
               Ev("advance", 0, "-"), Ev("tick", 0, "-") >>] ]
ScenNext(ev) ==
  [k \in DOMAIN Scripts |->
     IF /\ n = Scripts[k].units
        /\ scen[k] >= 0 /\ scen[k] < Len(Scripts[k].evs)
        /\ ev = Scripts[k].evs[scen[k] + 1]
     THEN scen[k] + 1 ELSE -1]

\* Commit: the handler produced s from State; the render runs the effect;
\* the step is taken only within the bounds.  press: 1 for a button press,
\* 0 for an event of the environment.  Once the component is unmounted its
\* buttons are gone, state updates are dropped and no effect runs: only
\* what a callback did to refs and to the pending events remains.
Commit(s, ev, press) ==
  LET r == IF mounted THEN playerEffect(State, s)
           ELSE [State EXCEPT !.tasks = s.tasks, !.sources = s.sources,
                              !.device = s.device, !.devices = s.devices]
  IN /\ BagCardinality(r.tasks) + BagCardinality(r.sources) <= MaxPending
     /\ press = 1 => mounted
     /\ ops + press <= MaxUserOps
     /\ ops' = ops + press
     /\ currentIndex' = r.currentIndex
     /\ isPlaying' = r.isPlaying
     /\ isLooping' = r.isLooping
     /\ loadingAudio' = r.loadingAudio
     /\ activeSpeechId' = r.activeSpeechId
     /\ loadingSpeechId' = r.loadingSpeechId
     /\ statusMsg' = r.statusMsg
     /\ sources' = r.sources
     /\ tasks' = r.tasks
     /\ device' = r.device
     /\ devices' = r.devices
     /\ UNCHANGED <<mounted, appVars, decodeVars, speechVars>>
     /\ scen' = ScenNext(ev)
     /\ n' = n

\* ---- the parts a specification does not exercise ----
\* the App showing the player, disarmed, with no schedule entry
AppShowsPlayer ==
  /\ appState = [currentView |-> "player", currentLesson |-> "lesson",
                 schedules |-> << >>, isAutoModeArmed |-> FALSE]
  /\ storage = [saved |-> FALSE, state |-> appState]
  /\ clock = [day |-> 0, t |-> 0]
  /\ timer = [on |-> FALSE, due |-> 0]
  /\ activations = << >>
\* decodeAudioData not called
DecodeIdle ==
  /\ data = << >>
  /\ buffer = [st |-> "none", samples |-> << >>]
\* generateSpeech not called
SpeechIdle ==
  /\ reply = [kind |-> "none", data |-> << >>]
  /\ audioBytes = [st |-> "none", bytes |-> << >>]

\* the Player as mounted: the initial values of its state cells and refs
PlayerMounted ==
  /\ currentIndex = 0
  /\ isPlaying = FALSE
  /\ isLooping = FALSE
  /\ loadingAudio = FALSE
  /\ activeSpeechId = NoId
  /\ loadingSpeechId = NoId
  /\ statusMsg = "none"
  /\ sources = EmptyBag
  /\ tasks = EmptyBag
  /\ device = "none"
  /\ devices = 0
  /\ mounted = TRUE
  /\ scen = [k \in DOMAIN Scripts |-> 0]

\* ---- Init: the Player as mounted, for a lesson of n sentences ----
Init ==
  /\ n \in 0..MaxUnits
  /\ PlayerMounted
  /\ AppShowsPlayer
  /\ DecodeIdle
  /\ SpeechIdle
  /\ ops = 0

\* ---- actions ----
ToggleAutoPlay ==
  Commit(toggleAutoPlay(State), Ev("toggleAutoPlay", 0, "-"), 1)

SpeakSentence(id) ==
  Commit(speakSentence(State, id), Ev("speakSentence", id, "-"), 1)

Prev ==
  /\ currentIndex # 0                       \* disabled={currentIndex === 0}
  /\ Commit([unlock(State) EXCEPT !.currentIndex = prevIndex(currentIndex)],
            Ev("prev", 0, "-"), 1)

NextUnit ==
  /\ currentIndex # n - 1                   \* disabled={currentIndex === length - 1}
  /\ Commit([unlock(State) EXCEPT !.currentIndex = nextIndex(currentIndex)],
            Ev("next", 0, "-"), 1)

ToggleLoop ==
  Commit([unlock(State) EXCEPT !.isLooping = ~isLooping],
         Ev("loop", 0, "-"), 1)

\* generateSpeech resolves for a pending playNextSentence call
AutoSpeechResolved(t, res) ==
  /\ t.kind = "auto"
  /\ Commit(playNextSentenceResumed(
              [State EXCEPT !.tasks = @ (-) One(t)], t, res),
            Ev("autoSpeech", t.unit, res), 0)

\* generateSpeech resolves for a pending speakSentence call
PointSpeechResolved(t, res) ==
  /\ t.kind = "point"
  /\ Commit(speakSentenceResumed(
              [State EXCEPT !.tasks = @ (-) One(t)], t, res),
            Ev("pointSpeech", t.unit, res), 0)

\* the 1000 ms timer of the failure branch fires
SkipTimerFired(t) ==
  /\ t.kind = "skip"
  /\ Commit(skipTimer([State EXCEPT !.tasks = @ (-) One(t)], t.unit),
            Ev("skipTimer", t.unit, "-"), 0)

\* the ended event of a node is delivered: after it played to its end, or
\* after stop(); its onended handler runs if one is attached
SourceEnded(r) ==
  LET s == [State EXCEPT !.sources = @ (-) One(r)]
  IN Commit(IF ~r.onended THEN s
            ELSE IF r.kind = "auto" THEN onendedAuto(s, r)
            ELSE onendedPoint(s),
            Ev("ended", r.unit, IF r.st = "playing" THEN "natural" ELSE "halted"), 0)

Next ==
  \/ ToggleAutoPlay
  \/ \E id \in 0..(n - 1) : SpeakSentence(id)
  \/ Prev
  \/ NextUnit
  \/ ToggleLoop
  \/ \E t \in BagToSet(tasks) : \E res \in SpeechResults :
        AutoSpeechResolved(t, res)
  \/ \E t \in BagToSet(tasks) : \E res \in SpeechResults :
        PointSpeechResolved(t, res)
  \/ \E t \in BagToSet(tasks) : SkipTimerFired(t)
  \/ \E r \in BagToSet(sources) : SourceEnded(r)

Spec == Init /\ [][Next]_vars

\* ---- the player on a platform that suspends the audio device ----
\* the context goes to "suspended" by itself (an interruption, the page
\* going to the background); nothing of the player runs
Suspend ==
  /\ device = "running"
  /\ device' = "suspended"
  /\ scen' = ScenNext(Ev("suspend", 0, "-"))
  /\ UNCHANGED <<n, currentIndex, isPlaying, isLooping, loadingAudio,
                 activeSpeechId, loadingSpeechId, statusMsg, sources, tasks,
                 devices, mounted, appVars, decodeVars, speechVars, ops>>

DeviceNext == Next \/ Suspend

DeviceSpec == Init /\ [][DeviceNext]_vars

\* ---- the player's life: the platform suspends, clicks land anywhere,
\*      the component is unmounted ----
\* the cleanup of the mount effect
Unmount ==
  /\ mounted
  /\ mounted' = FALSE
  /\ device' = IF device = "none" THEN "none" ELSE "closed"   \* ?.close()
  /\ scen' = ScenNext(Ev("unmount", 0, "-"))
  /\ UNCHANGED <<n, currentIndex, isPlaying, isLooping, loadingAudio,
                 activeSpeechId, loadingSpeechId, statusMsg, sources, tasks,
                 devices, appVars, decodeVars, speechVars, ops>>

\* the player that is unmounted: play, loop and the point-read of the
\* current unit are pressed (the unit is not changed by hand); results,
\* timers and ended events arrive before and after the unmount
TeardownNext ==
  \/ ToggleAutoPlay
  \/ ToggleLoop
  \/ (n > 0 /\ SpeakSentence(currentIndex))
  \/ \E t \in BagToSet(tasks) : \E res \in SpeechResults :
        AutoSpeechResolved(t, res) \/ PointSpeechResolved(t, res)
  \/ \E t \in BagToSet(tasks) : SkipTimerFired(t)
  \/ \E r \in BagToSet(sources) : SourceEnded(r)
  \/ Unmount
TeardownSpec == Init /\ [][TeardownNext]_vars

\* a click or touch that hits no button of the player: only the once-only
\* listeners on window see it; the cleanup does not remove them
ClickAnywhere ==
  /\ device = "none"
  /\ device' = unlock(State).device
  /\ devices' = unlock(State).devices
  /\ scen' = ScenNext(Ev("click", 0, "-"))
  /\ UNCHANGED <<n, currentIndex, isPlaying, isLooping, loadingAudio,
                 activeSpeechId, loadingSpeechId, statusMsg, sources, tasks,
                 mounted, appVars, decodeVars, speechVars, ops>>

LifeNext == DeviceNext \/ Unmount \/ ClickAnywhere

LifeSpec == Init /\ [][LifeNext]_vars

\* ---- the play button while the device is suspended ----
\* resume() settles later: toggleAutoPlay waits in its first line, and the
\* button can be pressed again meanwhile.  With the device running or not
\* yet created the await is over before anything else can happen.
ToggleAutoPlayAwaits ==
  /\ device = "suspended"
  /\ Commit([State EXCEPT !.tasks =
               @ (+) One(Task("toggle", activeSpeechId, isPlaying, FALSE))],
            Ev("toggleAutoPlay", 0, "-"), 1)
\* the promise of resume() settles for a waiting toggleAutoPlay
DeviceResumed(t) ==
  /\ t.kind = "toggle"
  /\ Commit(toggleAutoPlayResumed(
              [State EXCEPT !.tasks = @ (-) One(t), !.device = "running"], t),
            Ev("resumed", 0, "-"), 0)
AwaitNext ==
  \/ device # "suspended" /\ ToggleAutoPlay
  \/ ToggleAutoPlayAwaits
  \/ \E t \in BagToSet(tasks) : DeviceResumed(t)
  \/ \E id \in 0..(n - 1) : SpeakSentence(id)
  \/ Prev
  \/ NextUnit
  \/ ToggleLoop
  \/ \E t \in BagToSet(tasks) : \E res \in SpeechResults :
        AutoSpeechResolved(t, res) \/ PointSpeechResolved(t, res)
  \/ \E t \in BagToSet(tasks) : SkipTimerFired(t)
  \/ \E r \in BagToSet(sources) : SourceEnded(r)
  \/ Suspend
  \/ ClickAnywhere
AwaitSpec == Init /\ [][AwaitNext]_vars

\* ---- one session of auto-narration, left alone by the user ----
\* On the player as mounted the user may first choose the unit and the
\* loop, then presses play, and then nothing else.  Every pending speech
\* request resolves, every pending timer fires and every started node
\* comes to its ended event: weak fairness on each kind of event.
NeverStarted ==
  /\ ~isPlaying /\ statusMsg = "none"
  /\ tasks = EmptyBag /\ sources = EmptyBag
SetUp == NeverStarted /\ (Prev \/ NextUnit \/ ToggleLoop)
Start == NeverStarted /\ ToggleAutoPlay
RequestResolves ==
  \E t \in BagToSet(tasks) : \E res \in SpeechResults :
    AutoSpeechResolved(t, res)
TimerElapses == \E t \in BagToSet(tasks) : SkipTimerFired(t)
PlaybackCompletes == \E r \in BagToSet(sources) : SourceEnded(r)
SessionNext ==
  \/ SetUp
  \/ Start
  \/ RequestResolves
  \/ TimerElapses
  \/ PlaybackCompletes
SessionSpec ==
  /\ Init
  /\ [][SessionNext]_vars
  /\ WF_vars(RequestResolves)
  /\ WF_vars(TimerElapses)
  /\ WF_vars(PlaybackCompletes)

\* ======================================================================
\* The App component: schedule trigger, navigation, persistence
\* (src/services/geminiService.ts lines 144-275)
\* ======================================================================

\* setInterval(checkSchedule, 60000), in half-minutes
TickPeriod == 2

\* ---- the current time as checkSchedule formats it ----
Digits == <<"0", "1", "2", "3", "4", "5", "6", "7", "8", "9">>
\* x.toString().padStart(2, '0') for 0 <= x < 100
padStart2(x) ==
  IF x < 10 THEN <<"0", Digits[x + 1]>>
  ELSE <<Digits[(x \div 10) + 1], Digits[(x % 10) + 1]>>
getHours(c) == ((c.t \div 2) \div 60) % 24
getMinutes(c) == (c.t \div 2) % 60
currentHhMm(c) == padStart2(getHours(c)) \o <<":">> \o padStart2(getMinutes(c))

\* ---- schedule entries ----
\* the start times entries are given: "00:00" and "00:01"; every entry ends
\* at "00:02" and repeats on weekday 1; the run is on weekday 1 or 2
StartTimes == { <<"0", "0", ":", "0", "0">>, <<"0", "0", ":", "0", "1">> }
EndTime == <<"0", "0", ":", "0", "2">>
Days == {1, 2}
Entries ==
  [startTime : StartTimes, endTime : {EndTime}, enabled : BOOLEAN,
   repeatDays : {{1}}]
ScheduleLists == UNION {[1..k -> Entries] : k \in 0..MaxEntries}

Views == {"home", "player", "scheduler", "library", "scanner"}

\* the state of a first visit (no saved state)
DefaultState ==
  [currentView |-> "home", currentLesson |-> "lesson",
   schedules |->
     << [startTime |-> <<"0", "7", ":", "0", "0">>,
         endTime |-> <<"0", "7", ":", "3", "0">>,
         enabled |-> TRUE, repeatDays |-> {1, 2, 3, 4, 5}],
        [startTime |-> <<"1", "2", ":", "0", "0">>,
         endTime |-> <<"1", "2", ":", "4", "5">>,
         enabled |-> TRUE, repeatDays |-> {1, 2, 3, 4, 5}] >>,
   isAutoModeArmed |-> FALSE]

\* the state initialiser restoring everything that was saved (mutant)
load_restoresAll(x) ==
  IF ~x.saved THEN DefaultState ELSE x.state

\* the useState initialiser: x is what localStorage holds
load(x) ==
  IF ~x.saved THEN DefaultState
  ELSE [x.state EXCEPT !.currentView = "home", !.isAutoModeArmed = FALSE]

setView(st, view) == [st EXCEPT !.currentView = view]
toggleAutoMode(st) == [st EXCEPT !.isAutoModeArmed = ~@]
setSchedules(st, list) == [st EXCEPT !.schedules = list]

\* ---- checkSchedule ----
\* the predicate of state.schedules.find
matches(e, c) ==
  /\ e.enabled
  /\ c.day \in e.repeatDays
  /\ e.startTime = currentHhMm(c)

\* checkSchedule matching the whole window from startTime to endTime (mutant)
checkSchedule_window(st, c) ==
  LET hit == {i \in DOMAIN st.schedules :
                /\ st.schedules[i].enabled
                /\ c.day \in st.schedules[i].repeatDays
                /\ \E u \in 0..c.t :
                     /\ st.schedules[i].startTime = currentHhMm([c EXCEPT !.t = u])
                     /\ \E v \in c.t..(c.t + MaxClock) :
                          st.schedules[i].endTime
                            = currentHhMm([c EXCEPT !.t = v])}
  IN IF hit # {} /\ st.currentView # "player"
     THEN [st |-> setView(st, "player"), fired |-> TRUE]
     ELSE [st |-> st, fired |-> FALSE]

\* checkSchedule switching auto mode off once it has fired (mutant)
checkSchedule_oneShot(st, c) ==
  LET hit == {i \in DOMAIN st.schedules : matches(st.schedules[i], c)}
  IN IF hit # {} /\ st.currentView # "player"
     THEN [st |-> [setView(st, "player") EXCEPT !.isAutoModeArmed = FALSE],
           fired |-> TRUE]
     ELSE [st |-> st, fired |-> FALSE]

\* st: the state the closure sees; c: what new Date() yields.
\* fired: whether setView('player') was called
checkSchedule(st, c) ==
  LET hit == {i \in DOMAIN st.schedules : matches(st.schedules[i], c)}
  IN IF hit # {} /\ st.currentView # "player"
     THEN [st |-> setView(st, "player"), fired |-> TRUE]
     ELSE [st |-> st, fired |-> FALSE]

\* ---- the auto-start effect on [isAutoModeArmed, schedules, currentView] ----
\* rerun: a dependency changed (a list handed to setSchedules is a new
\* array even with equal content); st, tm, fired: state, timer and whether a
\* check has fired, as the handler left them.  When the immediate check
\* switches the view the effect runs once more: its cleanup clears the
\* interval just set, it sets a new one at the same instant, and its check
\* finds the player showing.
NoTimer == [on |-> FALSE, due |-> 0]

\* the effect not clearing the interval when auto mode is off (mutant)
autoStartEffect_keepsTimer(rerun, st, tm, fired) ==
  IF ~rerun THEN [st |-> st, timer |-> tm, fired |-> fired]
  ELSE IF ~st.isAutoModeArmed
  THEN [st |-> st, timer |-> tm, fired |-> fired]
  ELSE LET c == checkSchedule(st, clock)
       IN [st |-> c.st,
           timer |-> [on |-> TRUE, due |-> clock.t + TickPeriod],
           fired |-> fired \/ c.fired]

\* the effect without its immediate check (mutant)
autoStartEffect_noImmediateCheck(rerun, st, tm, fired) ==
  IF ~rerun THEN [st |-> st, timer |-> tm, fired |-> fired]
  ELSE IF ~st.isAutoModeArmed
  THEN [st |-> st, timer |-> NoTimer, fired |-> fired]
  ELSE [st |-> st,
        timer |-> [on |-> TRUE, due |-> clock.t + TickPeriod],
        fired |-> fired]

autoStartEffect(rerun, st, tm, fired) ==
  IF ~rerun THEN [st |-> st, timer |-> tm, fired |-> fired]
  ELSE IF ~st.isAutoModeArmed
  THEN [st |-> st, timer |-> NoTimer, fired |-> fired]          \* cleanup only
  ELSE LET c == checkSchedule(st, clock)
       IN [st |-> c.st,
           timer |-> [on |-> TRUE, due |-> clock.t + TickPeriod],
           fired |-> fired \/ c.fired]

AppDeps(st) == <<st.isAutoModeArmed, st.schedules, st.currentView>>

\* ---- the Player the App renders ----
\* the values of the Player's state cells and refs at its first render
InitialPlayer ==
  [currentIndex |-> 0, isPlaying |-> FALSE, isLooping |-> FALSE,
   loadingAudio |-> FALSE, activeSpeechId |-> NoId, loadingSpeechId |-> NoId,
   statusMsg |-> "none", sources |-> EmptyBag, tasks |-> EmptyBag,
   device |-> "none", devices |-> 0, mounted |-> TRUE]
\* the Player after its first render: every effect runs once
PlayerAtMount ==
  IF InitialPlayer.isPlaying
  THEN playNextSentence(InitialPlayer, InitialPlayer.currentIndex,
                        InitialPlayer.isPlaying, InitialPlayer.isLooping)
  ELSE IF InitialPlayer.activeSpeechId = NoId THEN stopAllAudio(InitialPlayer)
  ELSE InitialPlayer
PlayerIs(r) ==
  /\ currentIndex = r.currentIndex
  /\ isPlaying = r.isPlaying
  /\ isLooping = r.isLooping
  /\ loadingAudio = r.loadingAudio
  /\ activeSpeechId = r.activeSpeechId
  /\ loadingSpeechId = r.loadingSpeechId
  /\ statusMsg = r.statusMsg
  /\ sources = r.sources
  /\ tasks = r.tasks
  /\ device = r.device
  /\ devices = r.devices
  /\ mounted = r.mounted
PlayerBecomes(r) ==
  /\ currentIndex' = r.currentIndex
  /\ isPlaying' = r.isPlaying
  /\ isLooping' = r.isLooping
  /\ loadingAudio' = r.loadingAudio
  /\ activeSpeechId' = r.activeSpeechId
  /\ loadingSpeechId' = r.loadingSpeechId
  /\ statusMsg' = r.statusMsg
  /\ sources' = r.sources
  /\ tasks' = r.tasks
  /\ device' = r.device
  /\ devices' = r.devices
  /\ mounted' = r.mounted
PlayerShown(st) == st.currentView = "player" /\ st.currentLesson # "none"

\* AppCommit: a handler left state st, timer tm and fired; the render runs
\* the persistence effect and the auto-start effect, and mounts or unmounts
\* the Player.  A Player that is mounted is a new instance.  Nobody
\* touches the Player here, and what the window listeners of a Player do
\* after its unmount is left to LifeSpec.
AppCommit(st, tm, fired, rerun, ev, press) ==
  LET e == autoStartEffect(rerun \/ AppDeps(st) # AppDeps(appState),
                           st, tm, fired)
  IN /\ ops + press <= MaxUserOps
     /\ ops' = ops + press
     /\ appState' = e.st
     /\ storage' = [saved |-> TRUE, state |-> e.st]      \* setItem
     /\ timer' = e.timer
     /\ activations' =
          IF e.fired THEN Append(activations, clock.t) ELSE activations
     /\ IF PlayerShown(e.st) /\ (~PlayerShown(appState) \/ e.fired)
        THEN PlayerBecomes(PlayerAtMount)
        ELSE IF ~PlayerShown(e.st) /\ PlayerShown(appState)
        THEN PlayerBecomes([State EXCEPT !.mounted = FALSE])
        ELSE PlayerBecomes(State)
     /\ scen' = ScenNext(ev)
     /\ UNCHANGED <<n, clock, decodeVars, speechVars>>

\* ---- AppInit: the page was loaded, whatever localStorage held ----
SavedStates ==
  [currentView : Views, currentLesson : {"lesson"},
   schedules : ScheduleLists, isAutoModeArmed : BOOLEAN]
AppInit ==
  /\ n = MaxUnits
  /\ \E x \in {[saved |-> FALSE, state |-> DefaultState]}
               \cup [saved : {TRUE}, state : SavedStates] :
        /\ appState = load(x)
        /\ storage = [saved |-> TRUE, state |-> load(x)]
  /\ clock \in [day : Days, t : {0}]
  /\ timer = NoTimer
  /\ activations = << >>
  /\ PlayerIs([PlayerAtMount EXCEPT !.mounted = FALSE])
  /\ scen = [k \in DOMAIN Scripts |-> 0]
  /\ DecodeIdle
  /\ SpeechIdle
  /\ ops = 0

\* ---- actions ----
\* the switch on the home view
ToggleAutoMode ==
  /\ appState.currentView = "home"
  /\ AppCommit(toggleAutoMode(appState), timer, FALSE, FALSE,
               Ev("toggleAutoMode", 0, "-"), 1)

\* where the buttons of a view lead: the navigation bar (hidden on the
\* player and the scanner), the buttons of the home view, onBack, onSelect
\* and onLessonFound
NavTargets(view) ==
  IF view = "player" THEN {"home"}
  ELSE IF view = "scanner" THEN {"home", "player"}
  ELSE IF view = "library" THEN {"home", "player", "scanner", "scheduler"}
  ELSE IF view = "scheduler" THEN {"home", "library", "scanner"}
  ELSE {"library", "player", "scanner", "scheduler"}
Navigate(view) ==
  /\ view \in NavTargets(appState.currentView)
  /\ AppCommit(setView(appState, view), timer, FALSE, FALSE,
               Ev("setView", 0, view), 1)

\* the scheduler view hands a new list to setSchedules
EditSchedules(list) ==
  /\ appState.currentView = "scheduler"
  /\ AppCommit(setSchedules(appState, list), timer, FALSE, TRUE,
               Ev("setSchedules", 0, "-"), 1)

\* the interval fires, 60 s after it was set or last fired
TimerFired ==
  /\ timer.on /\ timer.due = clock.t
  /\ LET c == checkSchedule(appState, clock)
     IN AppCommit(c.st, [timer EXCEPT !.due = @ + TickPeriod], c.fired, FALSE,
                  Ev("tick", 0, "-"), 0)

\* half a minute passes; an interval that is due fires first
Advance ==
  /\ clock.t < MaxClock
  /\ ~(timer.on /\ timer.due = clock.t)
  /\ clock' = [clock EXCEPT !.t = @ + 1]
  /\ scen' = ScenNext(Ev("advance", 0, "-"))
  /\ UNCHANGED <<n, currentIndex, isPlaying, isLooping, loadingAudio,
                 activeSpeechId, loadingSpeechId, statusMsg, sources, tasks,
                 device, devices, mounted, appState, storage, timer,
                 activations, decodeVars, speechVars, ops>>

\* the page is reloaded: timers are gone, the state is built from
\* localStorage, every effect runs
Reload ==
  AppCommit(load(storage), NoTimer, FALSE, TRUE, Ev("reload", 0, "-"), 1)

AppNext ==
  \/ ToggleAutoMode
  \/ \E view \in Views : Navigate(view)
  \/ \E list \in ScheduleLists : EditSchedules(list)
  \/ TimerFired
  \/ Advance
  \/ Reload

AppSpec == AppInit /\ [][AppNext]_vars

\* ======================================================================
\* decodeAudioData (src/unnamed/part_002 lines 495-504)
\* ======================================================================
\* data is the Uint8Array generateSpeech returns: a fresh array, so its
\* byteOffset is 0; an Int16Array over it reads little-endian on the
\* platforms browsers run on.
MaxBytes == 3      \* byte buffers have 0..MaxBytes bytes
ByteValues == {0, 1, 127, 128, 255}
ByteBuffers == UNION {[1..k -> ByteValues] : k \in 0..MaxBytes}

\* a sample value num / den
Float(num, den) == [num |-> num, den |-> den]
\* the two bytes read as an unsigned value (mutant)
Int16At_unsigned(bytes, i) ==
  bytes[2 * i + 1] + 256 * bytes[2 * i + 2]
\* dataInt16[i], i counted from 0
Int16At(bytes, i) ==
  LET u == bytes[2 * i + 1] + 256 * bytes[2 * i + 2]
  IN IF u >= 32768 THEN u - 65536 ELSE u
\* ctx.createBuffer(1, length, 24000): one channel of zeros; a length of 0
\* raises NotSupportedError
createBuffer(length) ==
  IF length = 0 THEN [st |-> "error", samples |-> << >>]
  ELSE [st |-> "ok", samples |-> [i \in 1..length |-> Float(0, 1)]]
decodeAudioData(bytes) ==
  LET bufferLength == Len(bytes) \div 2
      b == createBuffer(bufferLength)
  IN IF b.st = "error" THEN b          \* the exception leaves the function
     ELSE [b EXCEPT !.samples =
             [i \in 1..bufferLength |-> Float(Int16At(bytes, i - 1), 32768)]]

DecodeInit ==
  /\ n = MaxUnits
  /\ PlayerMounted
  /\ AppShowsPlayer
  /\ data \in ByteBuffers
  /\ buffer = [st |-> "none", samples |-> << >>]
  /\ SpeechIdle
  /\ ops = 0
Decode ==
  /\ buffer.st = "none"
  /\ buffer' = decodeAudioData(data)
  /\ UNCHANGED <<data, playerVars, appVars, speechVars, ops>>
DecodeNext == Decode
DecodeSpec == DecodeInit /\ [][DecodeNext]_vars

\* ======================================================================
\* generateSpeech (src/services/geminiService.ts lines 10-42)
\* ======================================================================
MaxChars == 4      \* the inlineData.data string has 0..MaxChars characters
\* the characters a payload is made of: three of the base64 alphabet, the
\* padding sign, a blank and a sign outside the alphabet
Chars == {"A", "Q", "/", "=", " ", "!"}
Payloads == UNION {[1..k -> Chars] : k \in 0..MaxChars}
\* how generateContent ended: it threw (or rejected), or it returned a
\* response without inlineData.data, or one with the string data
Replies ==
  {[kind |-> "throws", data |-> << >>], [kind |-> "noData", data |-> << >>]}
    \cup [kind : {"data"}, data : Payloads]

\* ---- atob: forgiving base64 decoding ----
IsBlank(ch) == ch = " "
NotBlank(ch) == ~IsBlank(ch)
\* the 6-bit value of a base64 character
Sextet(ch) == IF ch = "A" THEN 0 ELSE IF ch = "Q" THEN 16 ELSE 63
InAlphabet(ch) == ch \in {"A", "Q", "/"}
\* up to two padding signs are dropped from a string of 4k characters
Unpadded(str) ==
  IF Len(str) > 0 /\ Len(str) % 4 = 0 /\ str[Len(str)] = "="
  THEN IF str[Len(str) - 1] = "="
       THEN SubSeq(str, 1, Len(str) - 2)
       ELSE SubSeq(str, 1, Len(str) - 1)
  ELSE str
\* the bytes of the sextets; the bits left over at the end are dropped
RECURSIVE Octets(_)
Octets(str) ==
  IF Len(str) < 2 THEN << >>
  ELSE LET b1 == Sextet(str[1]) * 4 + Sextet(str[2]) \div 16
       IN IF Len(str) = 2 THEN <<b1>>
          ELSE LET b2 == (Sextet(str[2]) % 16) * 16 + Sextet(str[3]) \div 4
               IN IF Len(str) = 3 THEN <<b1, b2>>
                  ELSE <<b1, b2, (Sextet(str[3]) % 4) * 64 + Sextet(str[4])>>
                         \o Octets(SubSeq(str, 5, Len(str)))
\* ok = FALSE: atob raises InvalidCharacterError
atob(str) ==
  LET body == Unpadded(SelectSeq(str, NotBlank))
  IN IF Len(body) % 4 = 1 \/ \E k \in DOMAIN body : ~InAlphabet(body[k])
     THEN [ok |-> FALSE, binaryString |-> << >>]
     ELSE [ok |-> TRUE, binaryString |-> Octets(body)]

\* generateSpeech without its try / catch (mutant)
generateSpeech_noCatch(r) ==
  IF r.kind = "throws" THEN [st |-> "raised", bytes |-> << >>]
  ELSE IF r.kind = "noData" \/ r.data = << >>
  THEN [st |-> "null", bytes |-> << >>]
  ELSE LET binaryString == atob(r.data)
       IN IF ~binaryString.ok THEN [st |-> "raised", bytes |-> << >>]
          ELSE [st |-> "bytes", bytes |-> binaryString.binaryString]

\* what the promise of generateSpeech settles with: st = "null" for null,
\* "bytes" for a Uint8Array, "raised" for a rejection
generateSpeech(r) ==
  IF r.kind = "throws" THEN [st |-> "null", bytes |-> << >>]         \* catch
  ELSE IF r.kind = "noData" \/ r.data = << >>                 \* !base64Audio
  THEN [st |-> "null", bytes |-> << >>]
  ELSE LET binaryString == atob(r.data)
       IN IF ~binaryString.ok THEN [st |-> "null", bytes |-> << >>]  \* catch
          ELSE [st |-> "bytes",
                bytes |-> [i \in 1..Len(binaryString.binaryString) |->
                             binaryString.binaryString[i]]]  \* charCodeAt(i)

SpeechInit ==
  /\ n = MaxUnits
  /\ PlayerMounted
  /\ AppShowsPlayer
  /\ DecodeIdle
  /\ reply \in Replies
  /\ audioBytes = [st |-> "none", bytes |-> << >>]
  /\ ops = 0
GenerateSpeech ==
  /\ audioBytes.st = "none"
  /\ audioBytes' = generateSpeech(reply)
  /\ UNCHANGED <<reply, playerVars, appVars, decodeVars, ops>>
SpeechNext == GenerateSpeech
SpeechSpec == SpeechInit /\ [][SpeechNext]_vars

\* ---- helpers of the claims ----
AutoTasks == {t \in BagToSet(tasks) : t.kind = "auto"}
PointTasks == {t \in BagToSet(tasks) : t.kind = "point"}
SkipTasks == {t \in BagToSet(tasks) : t.kind = "skip"}
\* a step started a node: stop() keeps the node until its ended event, and
\* no step both delivers an ended event and starts a node
StartsSource == BagCardinality(sources') > BagCardinality(sources)
NoPointRead ==
  /\ PointTasks = {}
  /\ activeSpeechId = NoId
  /\ loadingSpeechId = NoId

\* C1: at most one audio source that was started and has neither ended nor
\* been stopped exists at any instant.
C1_AtMostOneAudible == NumAudible(sources) <= 1

\* C2: auto-narration and point-reading are mutually exclusive: isPlaying
\* and activeSpeechId # null never hold together.
C2_ModesExclusive == ~(isPlaying /\ activeSpeechId # NoId)

\* C3: when auto-narration was stopped while the speech request of unit k
\* was in flight (isPlaying is false, no point-read is involved), the
\* request's audio is discarded when it arrives: no source is started and
\* currentIndex, isPlaying and the status are left as they are.
C3_LateResultDiscarded ==
  [][\A t \in AutoTasks :
       (~isPlaying /\ NoPointRead /\ AutoSpeechResolved(t, "audio"))
         => /\ ~StartsSource
            /\ UNCHANGED <<currentIndex, isPlaying, statusMsg>>]_vars

\* C4: after prev/next moved currentIndex away from unit i while playing, no
\* event of unit i (late speech result, playback completion, skip timer)
\* starts a source or changes currentIndex.
C4_SeekCancelsOldUnit ==
  [][/\ \A t \in AutoTasks : \A res \in SpeechResults :
          (isPlaying /\ t.unit # currentIndex /\ AutoSpeechResolved(t, res))
            => (~StartsSource /\ UNCHANGED currentIndex)
     /\ \A t \in SkipTasks :
          (isPlaying /\ t.unit # currentIndex /\ SkipTimerFired(t))
            => (~StartsSource /\ UNCHANGED currentIndex)
     /\ \A r \in Audible(sources) :
          (isPlaying /\ r.kind = "auto" /\ r.unit # currentIndex
             /\ SourceEnded(r))
            => (~StartsSource /\ UNCHANGED currentIndex)]_vars

\* C5: the ended event of a node halted by stopAllAudio never re-enters the
\* state machine: its delivery changes neither currentIndex nor isPlaying
\* and issues no speech request.
C5_StoppedSourceIsInert ==
  [][\A r \in BagToSet(sources) :
       (r.st = "stopped" /\ SourceEnded(r))
         => UNCHANGED <<currentIndex, isPlaying, tasks>>]_vars
\* the run start, audio of unit 0, stop, ended event of the halted node
C5_Witness ==
  /\ scen.S = 4
  /\ ~isPlaying /\ currentIndex = 0
  /\ tasks = EmptyBag /\ sources = EmptyBag

\* C6: for a lesson of n >= 1 units currentIndex is always in 0..n-1; prev
\* yields max(0, c-1) and next yields min(n-1, c+1).
C6_IndexInRange ==
  /\ [](n >= 1 => currentIndex \in 0..(n - 1))
  /\ [][/\ Prev => currentIndex' =
                     (IF currentIndex - 1 < 0 THEN 0 ELSE currentIndex - 1)
        /\ NextUnit => currentIndex' =
                     (IF currentIndex + 1 > n - 1 THEN n - 1
                      ELSE currentIndex + 1)]_vars
\* the failure skip and the completion of the last unit were both taken and
\* the index stands on the last unit
C6_Witness ==
  /\ scen.A = 7
  /\ currentIndex = n - 1

\* C7: Scenario A.  After unit 0 played to its end currentIndex = 1; unit 1
\* fails and after the skip delay currentIndex = 2, the session still
\* playing and unit 1 not requested again; after unit 2 played to its end
\* isPlaying is false and the status is the finished message.
C7_ScenarioA ==
  /\ scen.A = 3 => (currentIndex = 1 /\ isPlaying)
  /\ scen.A = 4 => (currentIndex = 1 /\ isPlaying /\ AutoTasks = {})
  /\ scen.A = 5 => (currentIndex = 2 /\ isPlaying)
  /\ scen.A \in 4..7 => \A t \in AutoTasks : t.unit # 1
  /\ scen.A = 5 => \E t \in AutoTasks : t.unit = 2
  /\ scen.A = 7 => (~isPlaying /\ statusMsg = "finished" /\ currentIndex = 2)
C7_Witness ==
  /\ scen.A = 7
  /\ ~isPlaying /\ statusMsg = "finished"

C9_LoopToggleOnlyFlipsFlag ==
  [][(isPlaying /\ ToggleLoop)
       => /\ isLooping' = ~isLooping
          /\ UNCHANGED <<currentIndex, isPlaying, loadingAudio, activeSpeechId,
                         loadingSpeechId, statusMsg, sources, tasks>>]_vars

\* C10: Scenario C.  speakSentence called while isPlaying sets isPlaying to
\* false; when the audio of unit A starts, activeSpeechId = A; when it has
\* played to its end with isPlaying false, activeSpeechId is null, isPlaying
\* is still false and no speech request was issued.
C10_PointReadHaltsNarration ==
  /\ [][/\ \A id \in 0..(n - 1) :
             (isPlaying /\ SpeakSentence(id)) => ~isPlaying'
        /\ \A t \in PointTasks :
             PointSpeechResolved(t, "audio")
               => (activeSpeechId' = t.unit /\ StartsSource)
        /\ \A r \in Audible(sources) :
             (r.kind = "point" /\ r.onended /\ ~isPlaying /\ SourceEnded(r))
               => (activeSpeechId' = NoId /\ ~isPlaying' /\ tasks' = tasks)]_vars
  \* the run of script C: after the call, after the audio of unit 1 started,
  \* after it completed
  /\ [](/\ scen.C = 3 => ~isPlaying
        /\ scen.C = 4 => (~isPlaying /\ activeSpeechId = 1)
        /\ scen.C = 5 => (~isPlaying /\ activeSpeechId = NoId
                          /\ tasks = EmptyBag))
\* start, audio of unit 0, point-read of unit 1, its audio, its completion
C10_Witness ==
  /\ scen.C = 5
  /\ activeSpeechId = NoId /\ ~isPlaying
  /\ AutoTasks = {}

\* a point-read is under way: its speech request is pending or its audio
\* is playing
PointReadInProgress ==
  \/ PointTasks # {}
  \/ \E r \in Audible(sources) : r.kind = "point" /\ r.onended

\* C11: a point-read never changes currentIndex: neither the call to
\* speakSentence nor any step taken while the point-read is under way, other
\* than a press on prev / next, changes currentIndex.
C11_PointReadKeepsIndex ==
  [][/\ \A id \in 0..(n - 1) : SpeakSentence(id) => currentIndex' = currentIndex
     /\ (PointReadInProgress /\ ~Prev /\ ~NextUnit)
          => currentIndex' = currentIndex]_vars

\* C12: a later speakSentence(B) cancels an earlier speakSentence(A) whose
\* request is still pending: when A's result arrives (loadingSpeechId is
\* still B, so B was called after A and has not resolved), no source is
\* started and activeSpeechId does not become A; and the call to B leaves no
\* point-read audio of the current source playing.
C12_LaterPointReadCancelsEarlier ==
  [][/\ \A t \in PointTasks :
          (/\ loadingSpeechId # NoId /\ t.unit # loadingSpeechId
           /\ PointSpeechResolved(t, "audio"))
            => (~StartsSource /\ activeSpeechId' # t.unit)
     /\ \A id \in 0..(n - 1) :
          SpeakSentence(id)
            => /\ CurrentSources(sources') = {}
               /\ activeSpeechId' = NoId]_vars

C14_ToggleCancelsPointRead ==
  [][/\ ToggleAutoPlay
          => /\ isPlaying' = ~isPlaying
             /\ activeSpeechId' = NoId
             /\ \A r \in Audible(sources') : r.kind = "point" => ~r.cur
     /\ \A t \in PointTasks :
          (isPlaying /\ PointSpeechResolved(t, "audio"))
            => (~StartsSource /\ activeSpeechId' = NoId)]_vars

\* the player is idle: no narration, no point-read, no node referenced
Idle ==
  /\ ~isPlaying /\ activeSpeechId = NoId
  /\ CurrentSources(sources) = {}

\* C15: stopAllAudio is idempotent and null-safe: in every state it yields a
\* state with no current source and activeSpeechId none and touches nothing
\* else, running it again changes nothing, and with no current source it
\* leaves the nodes as they are; after a stop of auto-narration in which the
\* stop path ran twice in a row (scripts C and S) the player is idle with
\* nothing playing.
C15_StopIsIdempotent ==
  LET s1 == stopAllAudio(State)
  IN /\ stopAllAudio(s1) = s1
     /\ CurrentSources(s1.sources) = {}
     /\ s1.activeSpeechId = NoId
     /\ [s1 EXCEPT !.sources = sources, !.activeSpeechId = activeSpeechId]
          = State
     /\ CurrentSources(sources) = {} => s1.sources = sources
     /\ Idle => s1 = State
     /\ (scen.C = 3 \/ scen.S = 3) => (Idle /\ NumAudible(sources) = 0)
\* narration was playing unit 0 and was stopped by a point-read: the call
\* ran stopAllAudio and so did the effect right after it
C15_Witness ==
  /\ scen.C = 3
  /\ Idle /\ sources = One(Halted)

\* C16: prev / next pressed while isPlaying is false issues no speech
\* request, starts no source, leaves isPlaying, isLooping, activeSpeechId
\* and the status as they are, and leaves every playing point-read node
\* playing; in script N only currentIndex changes.
C16_SeekWhileIdleOnlyMovesIndex ==
  /\ [][(~isPlaying /\ (Prev \/ NextUnit))
          => /\ UNCHANGED <<isPlaying, isLooping, activeSpeechId,
                            loadingSpeechId, loadingAudio, statusMsg, tasks>>
             /\ ~StartsSource
             /\ \A r \in Audible(sources) :
                  r.kind = "point"
                    => CopiesIn(r, sources') = CopiesIn(r, sources)]_vars
  /\ [](scen.N = 3 =>
          /\ currentIndex = 1 /\ ~isPlaying /\ activeSpeechId = 0
          /\ sources = One(Source("point", 0, FALSE, FALSE))
          /\ tasks = EmptyBag)
\* the point-read of unit 0 is playing and next was pressed
C16_Witness ==
  /\ scen.N = 3
  /\ currentIndex = 1 /\ activeSpeechId = 0
  /\ NumAudible(sources) = 1

\* C17: when the request of the last unit failed during auto-narration, the
\* skip timer ends the session as a completion of the last unit does:
\* isPlaying false, the finished status, currentIndex still n-1.
C17_FailureAtLastUnitFinishes ==
  [][\A t \in SkipTasks :
       (/\ isPlaying /\ currentIndex = n - 1 /\ t.unit = n - 1
        /\ NoPointRead /\ SkipTimerFired(t))
         => /\ ~isPlaying'
            /\ statusMsg' = "finished"
            /\ currentIndex' = n - 1]_vars

\* C18: on a lesson of zero units auto-narration is over as soon as it was
\* started: isPlaying is false again, no speech request was issued and no
\* error status is shown.
C18_EmptyLessonFinishesAtOnce ==
  n = 0 => /\ ~isPlaying
           /\ AutoTasks = {}
           /\ statusMsg \notin {"interrupted", "callFailed", "absent"}

\* C19: no failure leaves auto-narration stuck: on a lesson with units,
\* whenever isPlaying is true a speech request is in flight, a source is
\* playing or a skip timer is pending.
C19_NarrationNeverStuck ==
  (n >= 1 /\ isPlaying) => (tasks # EmptyBag \/ NumAudible(sources) > 0)

\* C20: no buffer is submitted to a device that became suspended while the
\* speech request was pending: whenever a step starts a source, the device
\* is running.
C20_DeviceActiveAtSubmission ==
  [][StartsSource => (device = "running" /\ device' = "running")]_vars

\* C21: once the player is unmounted no open audio device exists: the
\* device is closed, or was never created and is not created afterwards.
C21_DeviceReleasedAfterTeardown ==
  ~mounted => device \in {"none", "closed"}

\* C22: at most one audio device is ever constructed for a player, whatever
\* the number and order of ensureAudioContext calls (play button, point-read,
\* playNextSentence, the unlock listeners), and a device exists exactly when
\* one was constructed, so every call returns that device.
C22_OneDevicePerPlayer ==
  /\ devices <= 1
  /\ devices = 0 <=> device = "none"
\* start, stop: toggleAutoPlay, playNextSentence and toggleAutoPlay again
\* have each called ensureAudioContext
C22_Witness ==
  /\ scen.S = 3
  /\ devices = 1 /\ device = "running"

\* ---- the schedule trigger (AppSpec) ----
\* the minute a half-minute instant lies in
MinuteOf(t) == t \div 2

\* C23: while armed, the trigger switches the view to the player at most
\* once during a minute: no two activations, whatever caused their checks,
\* lie in the same minute
C23_OneActivationPerMinute ==
  \A i, j \in DOMAIN activations :
    i # j => MinuteOf(activations[i]) # MinuteOf(activations[j])


\* a start time read as minutes since midnight
DigitValue(ch) == CHOOSE d \in 0..9 : Digits[d + 1] = ch
MinutesOf(hhmm) ==
  (DigitValue(hhmm[1]) * 10 + DigitValue(hhmm[2])) * 60
    + DigitValue(hhmm[4]) * 10 + DigitValue(hhmm[5])
MinuteOfDay(c) == MinuteOf(c.t) % 1440
\* some entry of the list is enabled, repeats today and starts this minute
ExactMatch(list, c) ==
  \E i \in DOMAIN list :
    /\ list[i].enabled
    /\ c.day \in list[i].repeatDays
    /\ MinutesOf(list[i].startTime) = MinuteOfDay(c)
Armed == appState.isAutoModeArmed
Activated == activations' # activations
\* the step is seen to have run a check: the interval fired or the
\* auto-start effect ran again while armed
CheckRan ==
  /\ appState'.isAutoModeArmed
  /\ AppDeps(appState') # AppDeps(appState) \/ timer' # timer

\* C24: a check activates the player view iff the view is not the player
\* and some entry is enabled, repeats today and has its startTime equal to
\* the current HH:MM; a time after startTime, up to endTime or not, does not
\* activate
C24_ActivatesIffExactMatch ==
  [][ /\ checkSchedule(appState, clock).fired
           <=> (appState.currentView # "player"
                  /\ ExactMatch(appState.schedules, clock))
      /\ Activated =>
           /\ appState'.isAutoModeArmed
           /\ ExactMatch(appState'.schedules, clock)
           /\ appState'.currentView = "player"
      /\ (CheckRan /\ ~Activated) =>
           \/ appState'.currentView = "player"
           \/ ~ExactMatch(appState'.schedules, clock) ]_vars
\* a check at 00:01 or later, between the startTime 00:00 that has
\* activated once and the endTime 00:02, has left the home view showing
C24_Witness ==
  /\ activations = <<0>>
  /\ Armed /\ appState.currentView = "home"
  /\ MinuteOfDay(clock) >= 1
  /\ \E i \in DOMAIN appState.schedules :
       /\ appState.schedules[i].enabled
       /\ clock.day \in appState.schedules[i].repeatDays
       /\ MinutesOf(appState.schedules[i].startTime) < MinuteOfDay(clock)
       /\ MinuteOfDay(clock) <= MinutesOf(appState.schedules[i].endTime)


\* C25: while disarmed the trigger never changes the view: a step that ends
\* disarmed, the disarming step included, activates nothing and leaves no
\* interval set, so no tick is left to run a check; while disarmed the
\* view changes only when the user presses a button
C25_DisarmedNeverActivates ==
  [][ /\ ~Armed => ~timer.on
      /\ ~appState'.isAutoModeArmed => (~Activated /\ ~timer'.on)
      /\ (~Armed /\ ~appState'.isAutoModeArmed
            /\ appState'.currentView # appState.currentView)
           => ops' = ops + 1 ]_vars
\* auto mode was switched off at 00:01:00 with a tick due and an entry
\* starting at 00:01: the home view stays
C25_Witness ==
  /\ scen.D = 4
  /\ ~Armed /\ ~timer.on
  /\ ExactMatch(appState.schedules, clock)
  /\ appState.currentView = "home" /\ activations = << >>


\* C26: arming runs one check at once: if an entry matches at that instant
\* the view becomes the player in the arming step itself, and the interval
\* is set to fire 60 s later; while armed the next check is never more than
\* 60 s away, and the tick that is due runs a check before time moves on
C26_ArmingChecksAtOnce ==
  [][ /\ (~Armed /\ appState'.isAutoModeArmed) =>
           /\ timer' = [on |-> TRUE, due |-> clock.t + TickPeriod]
           /\ (appState.currentView # "player"
                 /\ ExactMatch(appState.schedules, clock))
                => (Activated /\ appState'.currentView = "player")
      /\ Armed =>
           /\ timer.on
           /\ clock.t <= timer.due /\ timer.due <= clock.t + TickPeriod
      /\ (Armed /\ timer.due = clock.t) => clock' = clock
      /\ (Armed /\ appState'.isAutoModeArmed /\ timer'.due > timer.due
            /\ timer.due = clock.t /\ ops' = ops) =>
           (Activated <=> (appState.currentView # "player"
                             /\ ExactMatch(appState.schedules, clock))) ]_vars
\* auto mode was armed at 00:01:30 with an entry starting at 00:01: the
\* player shows at 00:01:30 and the first tick is set for 00:02:30
C26_Witness ==
  /\ ops = 1 /\ Armed
  /\ clock.t = 3 /\ activations = <<3>>
  /\ appState.currentView = "player"
  /\ timer = [on |-> TRUE, due |-> 3 + TickPeriod]


\* C27: an activation changes only currentView, to the player:
\* currentLesson, schedules and isAutoModeArmed are as the check found them,
\* and the step of the activation leaves the player without a speech request,
\* a skip timer or an audio source, and not playing
C27_ActivationChangesOnlyView ==
  [][ /\ LET c == checkSchedule(appState, clock)
         IN /\ c.st = [appState EXCEPT !.currentView = c.st.currentView]
            /\ c.fired => c.st.currentView = "player"
      /\ Activated =>
           /\ appState'.isAutoModeArmed
           /\ appState'.currentLesson = appState.currentLesson
           /\ ops' = ops => appState' = setView(appState, "player")
           /\ tasks' = EmptyBag /\ sources' = EmptyBag /\ ~isPlaying' ]_vars
\* the first tick, at 00:01:00, has switched the view to the player
C27_Witness ==
  /\ scen.T = 4
  /\ activations = <<2>>
  /\ appState.currentView = "player" /\ Armed
  /\ tasks = EmptyBag /\ sources = EmptyBag


\* C28: once a schedule activation has brought up the player for the
\* current lesson, narration has started: isPlaying is true and unit 0 is
\* requested, with no button pressed in the player
C28_ActivationStartsNarration ==
  (/\ activations # << >>
   /\ PlayerShown(appState) /\ mounted
   /\ n > 0)
    => /\ isPlaying
       /\ \E t \in AutoTasks : t.unit = 0


\* C29: on load the state has isAutoModeArmed = false and currentView =
\* 'home' whatever was stored; until the user arms again no interval is set
\* and nothing activates, and no player is showing or narrating after the
\* load
C29_LoadDisarmsAndShowsHome ==
  [][ /\ ~load(storage).isAutoModeArmed
      /\ load(storage).currentView = "home"
      /\ ops = 0 => (~Armed /\ ~timer.on /\ activations = << >>)
      /\ Reload =>
           /\ ~appState'.isAutoModeArmed
           /\ appState'.currentView = "home"
           /\ appState'.schedules = storage.state.schedules
           /\ ~timer'.on /\ ~Activated
           /\ ~mounted' /\ ~isPlaying'
           /\ tasks' = EmptyBag /\ sources' = EmptyBag
      /\ (~Armed /\ ~appState'.isAutoModeArmed) => ~Activated ]_vars
\* the page was reloaded at 00:00:30 with auto mode armed and the player
\* showing after an activation at 00:00:00: the home view shows, disarmed,
\* while the entry still matches
C29_Witness ==
  /\ scen.R = 3
  /\ activations = <<0>>
  /\ ExactMatch(appState.schedules, clock)
  /\ ~Armed /\ appState.currentView = "home"
  /\ ~timer.on /\ ~mounted


\* ---- decodeAudioData (DecodeSpec) ----
\* C30: for every byte buffer, empty and odd-length ones included,
\* decodeAudioData returns a buffer of floor(len / 2) samples and does not
\* fail
C30_DecodeLengthIsHalf ==
  buffer.st # "none" =>
    /\ buffer.st = "ok"
    /\ Len(buffer.samples) = Len(data) \div 2


\* the signed 16-bit value of a low and a high byte, in two's complement:
\* bit 7 of the high byte weighs -32768
SignedLE(lo, hi) == lo + 256 * (hi % 128) - 32768 * (hi \div 128)

\* C31: sample i of the decoded buffer is v / 32768 with v the signed
\* 16-bit little-endian value of bytes 2i (low) and 2i + 1 (high), hence
\* -32768 <= v <= 32767 and the sample lies in [-1, 1)
C31_SamplesAreInt16Over32768 ==
  buffer.st = "ok" =>
    \A k \in 1..(Len(data) \div 2) :
      LET v == SignedLE(data[2 * k - 1], data[2 * k])
      IN /\ buffer.samples[k] = [num |-> v, den |-> 32768]
         /\ -32768 <= v /\ v <= 32767
         /\ -buffer.samples[k].den <= buffer.samples[k].num
         /\ buffer.samples[k].num < buffer.samples[k].den
\* three bytes 0, 128, x were decoded: one sample, -32768 / 32768
C31_Witness ==
  /\ buffer.st = "ok"
  /\ Len(data) = 3 /\ data[1] = 0 /\ data[2] = 128
  /\ Len(buffer.samples) = 1
  /\ buffer.samples[1].num = -32768


\* ---- generateSpeech (SpeechSpec) ----
\* the call of the speech model yielded no usable audio: it threw, the
\* payload is missing or empty, or the payload is not base64
NoAudio(r) ==
  \/ r.kind = "throws"
  \/ r.kind = "noData"
  \/ r.data = << >>
  \/ ~atob(r.data).ok

\* C32: generateSpeech never raises: when the call threw, the payload is
\* missing or empty or is not base64 it resolves to null, and otherwise to
\* the decoded bytes
C32_GenerateSpeechNeverRaises ==
  audioBytes.st # "none" =>
    /\ audioBytes.st # "raised"
    /\ NoAudio(reply) => audioBytes = [st |-> "null", bytes |-> << >>]
    /\ ~NoAudio(reply) =>
         /\ audioBytes.st = "bytes"
         /\ audioBytes.bytes = atob(reply.data).binaryString
\* a payload that is not base64 has resolved to null
C32_Witness ==
  /\ reply.kind = "data" /\ reply.data # << >>
  /\ ~atob(reply.data).ok
  /\ audioBytes.st = "null"


\* C33: a pending failure-skip is cancelled by superseding operations: the
\* request of unit 0 failed, and during the delay auto-narration was stopped
\* (script K) or a point-read of unit 1 started (script P); when the delay
\* has elapsed currentIndex is still 0 and the timer has left isPlaying
\* false
C33_SupersededSkipDoesNothing ==
  (scen.K = 4 \/ scen.P = 4) => (currentIndex = 0 /\ ~isPlaying)

\* ---- a session left alone (SessionSpec) ----
\* a step issues a speech request of auto-narration
RequestsAuto(unit) ==
  \E t \in BagToSet(tasks') :
    /\ t.kind = "auto" /\ t.unit = unit
    /\ CopiesIn(t, tasks') > CopiesIn(t, tasks)

\* C34: from start() on a lesson of n >= 1 units, without looping and
\* without further user operation, the session comes to isPlaying = false
\* with currentIndex = n - 1; the units are requested in order, once each:
\* a request is for the current unit at the start and else for the unit
\* after the one current before
C34_SessionReachesEnd ==
  /\ (n >= 1 /\ isPlaying /\ ~isLooping)
       ~> (~isPlaying /\ currentIndex = n - 1)
  /\ [][\A unit \in 0..(n - 1) :
          (~isLooping /\ RequestsAuto(unit)) =>
            /\ unit = currentIndex'
            /\ \/ ~isPlaying /\ unit = currentIndex
               \/ isPlaying /\ unit = currentIndex + 1]_vars


\* C35: with the loop on a failed speech request is skipped, not retried:
\* the failing step issues no request, and when the delay of unit k elapses
\* currentIndex becomes k + 1 and unit k + 1 is requested, or, at the last
\* unit, the session ends and nothing is requested; unit k is not requested
\* again
C35_LoopingFailureIsSkipped ==
  [][/\ \A t \in AutoTasks :
          (isLooping /\ t.loop /\ t.playing /\ AutoSpeechResolved(t, "null"))
            => /\ \A unit \in 0..(n - 1) : ~RequestsAuto(unit)
               /\ currentIndex' = currentIndex
     /\ \A t \in SkipTasks :
          (/\ isLooping /\ isPlaying /\ currentIndex = t.unit
           /\ NoPointRead /\ SkipTimerFired(t))
            => /\ ~RequestsAuto(t.unit)
               /\ IF t.unit + 1 < n
                  THEN /\ currentIndex' = t.unit + 1
                       /\ isPlaying'
                       /\ RequestsAuto(t.unit + 1)
                  ELSE /\ ~isPlaying'
                       /\ currentIndex' = t.unit
                       /\ \A unit \in 0..(n - 1) : ~RequestsAuto(unit)]_vars
\* looping, unit 0 of 2 failed and the delay has elapsed: unit 1 is current
\* and requested
C35_Witness ==
  /\ scen.M = 4
  /\ isLooping /\ isPlaying /\ currentIndex = 1
  /\ tasks = One(Task("auto", 1, TRUE, TRUE))


\* the node of a source record as stopAllAudio finds it: connected to the
\* destination
Node(r) ==
  [onended |-> r.onended, st |-> r.st, cur |-> r.cur, connected |-> TRUE]

\* C36: stopAllAudio works on the current source in a fixed order: the
\* observer is cleared first, then the source is halted, then disconnected,
\* then the reference is reset; after no statement, and in no state of the
\* player, is a halted source left with its observer attached
C36_StopOrderObserverFirst ==
  /\ \A r \in CurrentSources(sources) :
       LET tr == stopAllAudioSteps(Node(r))
       IN /\ tr[1] = [Node(r) EXCEPT !.onended = FALSE]
          /\ tr[2] = [tr[1] EXCEPT !.st = "stopped"]
          /\ tr[3] = [tr[2] EXCEPT !.connected = FALSE]
          /\ tr[4] = [tr[3] EXCEPT !.cur = FALSE]
          /\ \A k \in 1..4 : tr[k].st = "stopped" => ~tr[k].onended
          /\ \A x \in BagToSet(stopAllAudio(State).sources) :
               x.st = "stopped" =>
                 /\ x.onended = tr[4].onended
                 /\ x.cur = tr[4].cur
  /\ \A r \in BagToSet(sources) : r.st = "stopped" => ~r.onended
\* narration was stopped while unit 0 played: the halted node waits for its
\* ended event without an observer, and nothing is referenced
C36_Witness ==
  /\ scen.S = 3
  /\ CurrentSources(sources) = {}
  /\ \E r \in BagToSet(sources) : r.st = "stopped" /\ ~r.onended


\* ---- the player and its unmount (TeardownSpec) ----
\* a step adds a speech request or a timer
AddsTask ==
  \E t \in BagToSet(tasks') : CopiesIn(t, tasks') > CopiesIn(t, tasks)

\* C37: once the player is unmounted no speech result that resolves later
\* starts an audio source, and no completion callback of an earlier source
\* issues a speech request
C37_NothingStartsAfterTeardown ==
  [][~mounted => (~StartsSource /\ ~AddsTask /\ ~mounted')]_vars
\* the player was unmounted with the request of unit 0 pending, and the
\* audio that arrived was dropped
C37_Witness ==
  /\ scen.U = 3
  /\ ~mounted
  /\ tasks = EmptyBag /\ sources = EmptyBag


\* C39: on a lesson of zero units prev and next leave currentIndex at 0: no
\* navigation drives currentIndex below 0
C39_EmptyLessonIndexStaysZero ==
  /\ n = 0 => currentIndex = 0
  /\ currentIndex >= 0


\* ---- the play button during resume() (AwaitSpec) ----
\* C38: toggleAutoPlay is an involution on isPlaying: on the idle player
\* play was pressed twice, the second time while the first call still
\* waited for the device, and both calls have finished (script W):
\* isPlaying is false as before the first
C38_TwoTogglesRestoreIsPlaying ==
  scen.W = 6 => ~isPlaying


\* sanity of the model: value ranges, and currentSourceRef references at
\* most one node
TypeOK ==
  /\ n \in 0..MaxUnits
  /\ isPlaying \in BOOLEAN /\ isLooping \in BOOLEAN /\ loadingAudio \in BOOLEAN
  /\ activeSpeechId \in {NoId} \cup 0..(n - 1)
  /\ loadingSpeechId \in {NoId} \cup 0..(n - 1)
  /\ statusMsg \in {"none", "preparing", "absent", "callFailed", "studying",
                    "interrupted", "finished"}
  /\ IsABag(sources) /\ IsABag(tasks)
  /\ device \in {"none", "running", "suspended", "closed"}
  /\ devices \in 0..1 /\ mounted \in BOOLEAN
  /\ BagCardinality(sources) + BagCardinality(tasks) <= MaxPending
  /\ ops \in 0..MaxUserOps
  /\ appState.currentView \in Views /\ appState.isAutoModeArmed \in BOOLEAN
  /\ Len(appState.schedules) <= Max(MaxEntries, Len(DefaultState.schedules))
  /\ storage.saved \in BOOLEAN
  /\ timer.on \in BOOLEAN /\ clock.day \in 0..6 /\ clock.t \in 0..MaxClock
  /\ Len(activations) <= MaxUserOps + MaxClock
  /\ data \in ByteBuffers /\ buffer.st \in {"none", "ok", "error"}
  /\ reply.kind \in {"none", "throws", "noData", "data"}
  /\ Len(reply.data) <= MaxChars
  /\ audioBytes.st \in {"none", "null", "bytes", "raised"}
  /\ Cardinality(CurrentSources(sources)) <= 1
  /\ \A r \in CurrentSources(sources) : CopiesIn(r, sources) = 1
====
